---------------------------- MODULE Spec2Model ----------------------------
(***************************************************************************)
(* A model of lib/middle.js, the connect-style middleware dispatcher:      *)
(* use() registers (route, handle) layers on a dispatcher's stack,         *)
(* handle() walks the stack for one request with the closure next(err),    *)
(* call() invokes a layer's handle by arity, getProtohost() finds the      *)
(* scheme+authority prefix of an absolute-form URL.                        *)
(*                                                                         *)
(* Strings are sequences of one-character strings, indexed from 1 (the     *)
(* JavaScript index i is the TLA+ index i+1).  JavaScript runs one call    *)
(* stack to completion per turn of the event loop: cur is the activation   *)
(* that runs now, frames the callers waiting under it, immediates the      *)
(* setImmediate queue, pending the continuations handlers kept for later.  *)
(***************************************************************************)
EXTENDS Integers, Sequences, FiniteSets, TLC

\* ------------------------------------------------------------------ bounds

\* entries one dispatcher's stack may hold
MaxStack == 2

\* entries the stack may hold where the order of the handles is followed
MaxOrder == 3

\* entries of app and of sub where sub is mounted in app
MaxOuter == 2
MaxInner == 1

\* entries the stack may hold where the modes of the walk are followed
MaxModes == 3

\* entries the stack may hold where registration alone is followed
MaxUse == 2

\* the length of the urls handed to getProtohost
MaxUrlLen == 6

\* entries the stack may hold where the end of the walk is awaited
MaxLive == 2

\* entries the stack may hold where two requests are in flight
MaxTwo == 2

\* ------------------------------------------------------------ JS strings

Min(a, b) == IF a < b THEN a ELSE b

\* String.prototype.substr(start, length), start >= 0: a negative length
\* and a start past the end both give the empty string
Substr(s, start, len) ==
    IF len <= 0 \/ start >= Len(s) THEN <<>>
    ELSE SubSeq(s, start + 1, Min(start + len, Len(s)))

\* String.prototype.substr(start)
SubstrFrom(s, start) == Substr(s, start, Len(s))

\* String.prototype.indexOf(needle, from) for a needle string, -1 when absent
IndexOf(s, needle, from) ==
    LET hits == {i \in from..(Len(s) - Len(needle)) :
                    Substr(s, i, Len(needle)) = needle}
    IN IF hits = {} THEN -1 ELSE CHOOSE i \in hits : \A j \in hits : i <= j

\* the letters the model's alphabet holds in both cases
LowerOf(c) == IF c = "A" THEN "a" ELSE c

\* String.prototype.toLowerCase
ToLowerCase(s) == [i \in 1..Len(s) |-> LowerOf(s[i])]

\* undefined where a string is expected: no string of characters equals it
UNDEF == <<"undefined">>

\* ---------------------------------------------------------- getProtohost

\* getProtohost(url): UNDEF, or the prefix up to the first "/" at or after
\* the end of the first "://" found before the query marker
GetProtohost(url) ==
    IF Len(url) = 0 \/ url[1] = "/" THEN UNDEF
    ELSE LET searchIndex == IndexOf(url, <<"?">>, 0)
             pathLength == IF searchIndex # -1 THEN searchIndex ELSE Len(url)
             fqdnIndex == IndexOf(Substr(url, 0, pathLength), <<":", "/", "/">>, 0)
         IN IF fqdnIndex # -1
            THEN Substr(url, 0, IndexOf(url, <<"/">>, 3 + fqdnIndex))
            ELSE UNDEF

\* getProtohost(req.url) || ''
ProtohostOrEmpty(url) ==
    LET p == GetProtohost(url) IN IF p = UNDEF \/ p = <<>> THEN <<>> ELSE p

\* ------------------------------------------------------ parseUrl(req).pathname

\* the end of the authority of "scheme://authority...": the first "/" or "?"
\* after the "://" marker, or the end of the url
AuthorityEnd(url, from) ==
    LET s == IndexOf(url, <<"/">>, from)
        q == IndexOf(url, <<"?">>, from)
        c == {i \in {s, q} : i # -1}
    IN IF c = {} THEN Len(url) ELSE CHOOSE i \in c : \A j \in c : i <= j

\* parseUrl(req).pathname || '/': the url up to the query marker; for an
\* absolute-form url the part after the authority
PathnameOf(url) ==
    LET searchIndex == IndexOf(url, <<"?">>, 0)
        pathLength == IF searchIndex # -1 THEN searchIndex ELSE Len(url)
        fqdnIndex == IndexOf(Substr(url, 0, pathLength), <<":", "/", "/">>, 0)
        start == IF Len(url) > 0 /\ url[1] # "/" /\ fqdnIndex # -1
                 THEN AuthorityEnd(url, 3 + fqdnIndex)
                 ELSE 0
        pathname == Substr(url, start, pathLength - start)
    IN IF pathname = <<>> THEN <<"/">> ELSE pathname

\* ------------------------------------------------------------ the values

\* what a handler may pass to next or throw: undefined, false, null and an
\* Error object
NoErr == "undefined"
Errs == {NoErr, "false", "null", "E"}

\* the same with the number 0 and the empty string
ErrValues == Errs \cup {"0", "''"}

\* Boolean(err)
Truthy(err) == err \notin {NoErr, "false", "null", "0", "''"}

\* the dispatchers: app serves the requests, sub may be mounted in app
Apps == {"app", "sub"}
Reqs == {1}

\* two requests in flight on the same dispatcher
TwoReqs == {1, 2}

\* use() called without a route
NoPath == <<"no route">>

\* the request urls. Origin-form: the root, the route /a alone, followed by
\* "/", by ".", by a letter, by a query, in the other letter case, and a path
\* outside /a. Absolute-form: with and without a path under /a
Origin == <<"h", ":", "/", "/", "e">>
OriginForms ==
    {<<"/">>, <<"/", "a">>, <<"/", "a", "/">>, <<"/", "a", "/", "b">>,
     <<"/", "a", ".", "b">>, <<"/", "a", "b">>, <<"/", "A", "/", "b">>,
     <<"/", "b">>, <<"/", "a", "?", "b">>}
AbsoluteForms ==
    {Origin \o p : p \in {<<>>, <<"/", "a">>, <<"/", "a", "/", "b">>,
                          <<"/", "a", ".", "b">>}}
Urls == OriginForms \cup AbsoluteForms

\* the routes handed to use()
UsePaths == {NoPath, <<"/", "a">>, <<"/", "A", "/">>}

\* a plain function of the given declared parameter count
Fn(arity) == [kind |-> "fn", arity |-> arity, server |-> "none"]

\* a dispatcher handed to use(): it has a handle method
Server(a) == [kind |-> "server", arity |-> 3, server |-> a]

VARIABLES
    stack,       \* app.stack of each dispatcher: a sequence of layers
    route,       \* app.route of each dispatcher
    req,         \* each request: whether it arrived, the url it arrived with,
                 \* req.url, req.originalUrl
    walker,      \* the closure variables of handle() per request and dispatcher
    cur,         \* the activation that runs now
    frames,      \* the activations waiting for cur to return, innermost last
    immediates,  \* the setImmediate queue
    pending,     \* the continuations handlers kept to call in a later turn
    log,         \* what each invoked handler saw and did, in order
    finals       \* the errors the final handler was called with, per request

vars == <<stack, route, req, walker, cur, frames, immediates, pending, log, finals>>

\* ------------------------------------------------------------------ Init

NoWalker ==
    [live |-> FALSE, index |-> 0, protohost |-> <<>>, removed |-> <<>>,
     slashAdded |-> FALSE, done |-> "none"]

Returning == [op |-> "return", r |-> 0, a |-> "none", i |-> 0, err |-> NoErr]

\* the dispatchers as createServer() leaves them and the requests rs, none
\* of which has arrived
InitWith(rs) ==
    /\ stack = [a \in Apps |-> <<>>]
    /\ route = [a \in Apps |-> <<"/">>]
    /\ req = [r \in rs |-> [state |-> "new", received |-> UNDEF, url |-> UNDEF,
                            originalUrl |-> UNDEF]]
    /\ walker = [r \in rs |-> [a \in Apps |-> NoWalker]]
    /\ cur = Returning
    /\ frames = <<>>
    /\ immediates = <<>>
    /\ pending = {}
    /\ log = <<>>
    /\ finals = [r \in rs |-> <<>>]

Init == InitWith(Reqs)

\* no JavaScript runs: the event loop may start a turn
Idle == cur.op = "return" /\ frames = <<>>

\* ------------------------------------------------------------------- use

\* use(): the trailing slash of the path is cut
StripTrailingSlash(path) ==
    IF Len(path) > 0 /\ path[Len(path)] = "/"
    THEN SubSeq(path, 1, Len(path) - 1)
    ELSE path

Mounted(a) == \E b \in Apps : \E i \in 1..Len(stack[b]) : stack[b][i].handle = Server(a)

\* app.use(route, fn): registration happens before request traffic begins;
\* the model mounts sub in app only, and at most once
UseUpTo(max, a, route0, fn) ==
    /\ \A r \in DOMAIN req : req[r].state = "new"
    /\ Len(stack[a]) < max
    /\ fn.kind = "server" => a = "app" /\ fn.server = "sub" /\ ~Mounted("sub")
    /\ LET path == IF route0 = NoPath THEN <<"/">> ELSE route0
       IN /\ route' = IF fn.kind = "server"
                      THEN [route EXCEPT ![fn.server] = path]
                      ELSE route
          /\ stack' = [stack EXCEPT ![a] =
                          Append(@, [route |-> StripTrailingSlash(path), handle |-> fn])]
    /\ UNCHANGED <<req, walker, cur, frames, immediates, pending, log, finals>>

Use(a, route0, fn) == UseUpTo(MaxStack, a, route0, fn)

\* ---------------------------------------------------------------- handle

\* a next that, called with no argument, keeps the err of the running call
NextCallSticky(r, a, err) ==
    [op |-> "next", r |-> r, a |-> a, i |-> 0,
     err |-> IF err = NoErr THEN cur.err ELSE err]

\* an activation of next(err) of request r's walk of dispatcher a
NextCall(r, a, err) == [op |-> "next", r |-> r, a |-> a, i |-> 0, err |-> err]

\* a waiting activation: the handle of layer i, invoked by call() with err
\* (i = 0: the handle() method called from outside), which after its callee
\* returns either returns or throws val
Frame(r, a, i, err, after, val) ==
    [r |-> r, a |-> a, i |-> i, err |-> err, after |-> after, val |-> val]

\* req.originalUrl = req.url, whatever was stored
StoreOriginalUrlAlways(q) == q.url

\* req.originalUrl = req.originalUrl || req.url
StoreOriginalUrl(q) ==
    IF q.originalUrl = UNDEF \/ q.originalUrl = <<>> THEN q.url ELSE q.originalUrl

\* handle(req, res, out) up to its call of next(): the closure variables,
\* the final function and the original url
HandleEnter(r, a, url, out) ==
    /\ walker' = [walker EXCEPT ![r][a] =
                     [live |-> TRUE, index |-> 0, protohost |-> ProtohostOrEmpty(url),
                      removed |-> <<>>, slashAdded |-> FALSE, done |-> out]]
    /\ req' = [req EXCEPT ![r] =
                  [state |-> "active",
                   received |-> IF @.state = "new" THEN url ELSE @.received,
                   url |-> url,
                   originalUrl |-> StoreOriginalUrl([@ EXCEPT !.url = url])]]
    /\ cur' = NextCall(r, a, NoErr)

\* the http server hands request r with the given url to app.handle(req, res)
Handle(r, url) ==
    /\ Idle
    /\ req[r].state = "new"
    /\ HandleEnter(r, "app", url, "finalhandler")
    /\ frames' = Append(frames, Frame(r, "app", 0, NoErr, "return", NoErr))
    /\ UNCHANGED <<stack, route, immediates, pending, log, finals>>

\* ------------------------------------------------------------------ next

\* next(): the slash added for the last layer is taken off again
RestoreSlash(w, url) == IF w.slashAdded THEN SubstrFrom(url, 1) ELSE url

\* next(): the route removed for the last layer is put back
RestoreRemoved(w, url) ==
    IF Len(w.removed) # 0
    THEN w.protohost \o w.removed \o SubstrFrom(url, Len(w.protohost))
    ELSE url

\* a prefix test that leaves the last character of the route out
PrefixMismatchShort(path, layerRoute) ==
    Substr(ToLowerCase(path), 0, Len(layerRoute) - 1)
        # Substr(ToLowerCase(layerRoute), 0, Len(layerRoute) - 1)

\* next(): skip this layer if the route doesn't match
PrefixMismatch(path, layerRoute) ==
    Substr(ToLowerCase(path), 0, Len(layerRoute)) # ToLowerCase(layerRoute)

\* next(): c, the character after the route, "" where the code has false
BorderChar(path, layerRoute) ==
    IF Len(path) > Len(layerRoute) THEN path[Len(layerRoute) + 1] ELSE ""

\* a border test that takes "/" alone for a border
BorderMismatchNoDot(path, layerRoute) ==
    LET c == BorderChar(path, layerRoute) IN c # "" /\ c # "/"

\* next(): skip if route match does not border "/", ".", or end
BorderMismatch(path, layerRoute) ==
    LET c == BorderChar(path, layerRoute) IN c # "" /\ c # "/" /\ c # "."

\* next(): whether the route is trimmed off the url
Trims(layerRoute) == Len(layerRoute) # 0 /\ layerRoute # <<"/">>

\* next(): the url without the part that matches the route
TrimUrl(protohost, layerRoute, url) ==
    protohost \o SubstrFrom(url, Len(protohost) + Len(layerRoute))

\* a leading slash ensured for the empty url alone
NeedsSlashWhenEmpty(protohost, url) == protohost = <<>> /\ url = <<>>

\* next(): ensure leading slash
NeedsSlash(protohost, url) == protohost = <<>> /\ (url = <<>> \/ url[1] # "/")

\* a hasError that is Boolean(err) alone
HasErrorTruthyOnly(err) == Truthy(err)

\* call(): hasError
HasError(err) == err = "false" \/ Truthy(err)

\* a pending error handed to a handle of any arity
InvokesAnyOnError(arity, err) ==
    \/ HasError(err)
    \/ ~HasError(err) /\ arity < 4

\* a handle of any arity invoked when no error is pending
InvokesAnyWithoutError(arity, err) ==
    \/ HasError(err) /\ arity = 4
    \/ ~HasError(err)

\* call(): whether the handle of the given arity is invoked with this err
Invokes(arity, err) ==
    \/ HasError(err) /\ arity = 4
    \/ ~HasError(err) /\ arity < 4

\* a defer that schedules nothing
DeferDropped(queue, r, a, err) == queue

\* defer(done, err)
Defer(queue, r, a, err) == Append(queue, [r |-> r, a |-> a, err |-> err])

\* stack[++index]: the index is advanced before the layer is read
SelectedLayerPreIncrement(w) == w.index + 2

\* an index that all the walks of app share: the first request's
SelectedLayerShared(w) == walker[1]["app"].index + 1

\* next(): var layer = stack[index++], as a position of the 1-based stack
SelectedLayer(w) == w.index + 1

\* done(err) called where it should be deferred
AllDoneSync(r, a, err) ==
    /\ immediates' = immediates
    /\ finals' = [finals EXCEPT ![r] = Append(@, err)]
    /\ cur' = Returning

\* next(): all done
AllDone(r, a, err) ==
    /\ immediates' = Defer(immediates, r, a, err)
    /\ finals' = finals
    /\ cur' = Returning

\* one activation of next(err), call(layer.handle, ...) included up to the
\* point where the handle is invoked or next is called again
Advance ==
    /\ cur.op = "next"
    /\ LET r == cur.r
           a == cur.a
           err == cur.err
           w == walker[r][a]
           restored == RestoreRemoved(w, RestoreSlash(w, req[r].url))
           i == SelectedLayer(w)
           w1 == [w EXCEPT !.slashAdded = FALSE, !.removed = <<>>, !.index = @ + 1]
       IN IF i > Len(stack[a])
          THEN /\ AllDone(r, a, err)
               /\ walker' = [walker EXCEPT ![r][a] = w1]
               /\ req' = [req EXCEPT ![r].url = restored]
          ELSE LET layer == stack[a][i]
                   path == PathnameOf(restored)
                   trimmed == TrimUrl(w.protohost, layer.route, restored)
                   slash == NeedsSlash(w.protohost, trimmed)
               IN /\ immediates' = immediates
                  /\ finals' = finals
                  /\ IF PrefixMismatch(path, layer.route) \/ BorderMismatch(path, layer.route)
                     THEN /\ walker' = [walker EXCEPT ![r][a] = w1]
                          /\ req' = [req EXCEPT ![r].url = restored]
                          /\ cur' = NextCall(r, a, err)
                     ELSE /\ walker' = [walker EXCEPT ![r][a] =
                                 IF Trims(layer.route)
                                 THEN [w1 EXCEPT !.removed = layer.route, !.slashAdded = slash]
                                 ELSE w1]
                          /\ req' = [req EXCEPT ![r].url =
                                 IF ~Trims(layer.route) THEN restored
                                 ELSE IF slash THEN <<"/">> \o trimmed
                                 ELSE trimmed]
                          /\ cur' = IF Invokes(layer.handle.arity, err)
                                    THEN [op |-> "invoke", r |-> r, a |-> a, i |-> i, err |-> err]
                                    ELSE NextCall(r, a, err)
    /\ UNCHANGED <<stack, route, frames, pending, log>>

\* ------------------------------------------------------------- the handles

\* what the handle invoked now is given, and what it does
Seen(beh, val) ==
    [r |-> cur.r, a |-> cur.a, i |-> cur.i, err |-> cur.err, url |-> req[cur.r].url,
     beh |-> beh, val |-> val]

Invoked(kind) == cur.op = "invoke" /\ stack[cur.a][cur.i].handle.kind = kind

\* the handle calls next(v) before it returns
CallsNext(v) ==
    /\ Invoked("fn")
    /\ log' = Append(log, Seen("next", v))
    /\ frames' = Append(frames, Frame(cur.r, cur.a, cur.i, cur.err, "return", NoErr))
    /\ cur' = NextCall(cur.r, cur.a, v)
    /\ UNCHANGED <<stack, route, req, walker, immediates, pending, finals>>

\* the handle calls next(v) and throws e when that call has returned
CallsNextThenThrows(v, e) ==
    /\ Invoked("fn")
    /\ log' = Append(log, Seen("next-throw", v))
    /\ frames' = Append(frames, Frame(cur.r, cur.a, cur.i, cur.err, "throw", e))
    /\ cur' = NextCall(cur.r, cur.a, v)
    /\ UNCHANGED <<stack, route, req, walker, immediates, pending, finals>>

\* the handle throws e without calling next
Throws(e) ==
    /\ Invoked("fn")
    /\ log' = Append(log, Seen("throw", e))
    /\ frames' = Append(frames, Frame(cur.r, cur.a, cur.i, cur.err, "return", NoErr))
    /\ cur' = [op |-> "throw", r |-> cur.r, a |-> cur.a, i |-> cur.i, err |-> e]
    /\ UNCHANGED <<stack, route, req, walker, immediates, pending, finals>>

\* the handle returns and will call next(v) in a later turn
KeepsNext(v) ==
    /\ Invoked("fn")
    /\ log' = Append(log, Seen("later", v))
    /\ pending' = pending \cup {[r |-> cur.r, a |-> cur.a, i |-> cur.i, val |-> v]}
    /\ cur' = Returning
    /\ UNCHANGED <<stack, route, req, walker, frames, immediates, finals>>

\* the handle ends the response: it returns and never calls next
Ends ==
    /\ Invoked("fn")
    /\ log' = Append(log, Seen("end", NoErr))
    /\ cur' = Returning
    /\ UNCHANGED <<stack, route, req, walker, frames, immediates, pending, finals>>

\* handleFn of use(): server.handle(req, res, next), next the outer walk's
EntersServer ==
    /\ Invoked("server")
    /\ log' = Append(log, Seen("handle", NoErr))
    /\ HandleEnter(cur.r, stack[cur.a][cur.i].handle.server, req[cur.r].url, cur.a)
    /\ frames' = Append(frames, Frame(cur.r, cur.a, cur.i, cur.err, "return", NoErr))
    /\ UNCHANGED <<stack, route, immediates, pending, finals>>

\* ----------------------------------------------------- returns and throws

\* the callee returned: the waiting handle returns too, or throws
Return ==
    /\ cur.op = "return"
    /\ frames # <<>>
    /\ LET top == frames[Len(frames)]
       IN IF top.after = "throw"
          THEN /\ cur' = [op |-> "throw", r |-> top.r, a |-> top.a, i |-> top.i,
                          err |-> top.val]
               /\ frames' = [frames EXCEPT ![Len(frames)].after = "return"]
          ELSE /\ cur' = cur
               /\ frames' = SubSeq(frames, 1, Len(frames) - 1)
    /\ UNCHANGED <<stack, route, req, walker, immediates, pending, log, finals>>

\* a catch that leaves error as it was
CaughtErrorKept(err, e) == err

\* call(): var error = err, and in catch (e) error = e
CaughtError(err, e) == e

\* call(): the handle threw: replace the error, then next(error, req, res)
Catch ==
    /\ cur.op = "throw"
    /\ frames' = SubSeq(frames, 1, Len(frames) - 1)
    /\ cur' = NextCall(cur.r, cur.a, CaughtError(frames[Len(frames)].err, cur.err))
    /\ UNCHANGED <<stack, route, req, walker, immediates, pending, log, finals>>

\* ------------------------------------------------------------ later turns

\* a turn of the event loop runs the oldest setImmediate callback, done(err):
\* the final handler, or the next of the walk that mounted the dispatcher
RunImmediate ==
    /\ Idle
    /\ immediates # <<>>
    /\ LET job == Head(immediates)
           done == walker[job.r][job.a].done
       IN IF done = "finalhandler"
          THEN /\ finals' = [finals EXCEPT ![job.r] = Append(@, job.err)]
               /\ cur' = cur
          ELSE /\ finals' = finals
               /\ cur' = NextCall(job.r, done, job.err)
    /\ immediates' = Tail(immediates)
    /\ UNCHANGED <<stack, route, req, walker, frames, pending, log>>

\* a later turn in which a handle calls the next it kept
LaterNext ==
    /\ Idle
    /\ \E c \in pending :
          /\ pending' = pending \ {c}
          /\ cur' = NextCall(c.r, c.a, c.val)
    /\ UNCHANGED <<stack, route, req, walker, frames, immediates, log, finals>>

\* ------------------------------------------------------- specifications

Arities == {3, 4}

\* one dispatcher, one request
Next ==
    \/ \E p \in UsePaths, n \in Arities : Use("app", p, Fn(n))
    \/ \E r \in Reqs, u \in Urls : Handle(r, u)
    \/ Advance
    \/ \E v \in Errs : CallsNext(v)
    \/ CallsNextThenThrows(NoErr, "E")
    \/ \E e \in Errs : Throws(e)
    \/ \E v \in Errs : KeepsNext(v)
    \/ Ends
    \/ Return
    \/ Catch
    \/ RunImmediate
    \/ LaterNext

Spec == Init /\ [][Next]_vars

\* request handlers registered in a row: routes /a and the root, requests
\* under /a and outside it
OrderPaths == {NoPath, <<"/", "a">>}
OrderUrls == {<<"/", "a", "/", "b">>, <<"/", "b">>}

NextOrder ==
    \/ \E p \in OrderPaths : UseUpTo(MaxOrder, "app", p, Fn(3))
    \/ \E r \in Reqs, u \in OrderUrls : Handle(r, u)
    \/ Advance
    \/ \E v \in Errs : CallsNext(v)
    \/ CallsNextThenThrows(NoErr, "E")
    \/ \E e \in Errs : Throws(e)
    \/ \E v \in Errs : KeepsNext(v)
    \/ Ends
    \/ Return
    \/ Catch
    \/ RunImmediate
    \/ LaterNext

SpecOrder == Init /\ [][NextOrder]_vars

\* a dispatcher mounted in a dispatcher: routes /a and the root for both, so
\* that sub walks /a/a for app; requests in both forms and in the other
\* letter case
NestedPaths == {NoPath, <<"/", "a">>}
NestedUrls ==
    {<<"/", "a">>, <<"/", "a", "/", "a">>, <<"/", "b">>, <<"/", "A", "/", "a">>,
     Origin \o <<"/", "a", "/", "a">>}
NestedErrs == {NoErr, "E"}

NextNested ==
    \/ \E p \in NestedPaths, n \in Arities : UseUpTo(MaxOuter, "app", p, Fn(n))
    \/ \E p \in NestedPaths, n \in Arities : UseUpTo(MaxInner, "sub", p, Fn(n))
    \/ \E p \in NestedPaths : UseUpTo(MaxOuter, "app", p, Server("sub"))
    \/ \E r \in Reqs, u \in NestedUrls : Handle(r, u)
    \/ Advance
    \/ EntersServer
    \/ \E v \in NestedErrs : CallsNext(v)
    \/ CallsNextThenThrows(NoErr, "E")
    \/ Throws("E")
    \/ KeepsNext(NoErr)
    \/ Ends
    \/ Return
    \/ Catch
    \/ RunImmediate
    \/ LaterNext

SpecNested == Init /\ [][NextNested]_vars

\* request and error handlers registered in a row on the root, one request
\* to the root, and every kind of value passed to next or thrown
NextModes ==
    \/ \E n \in Arities : UseUpTo(MaxModes, "app", NoPath, Fn(n))
    \/ \E r \in Reqs : Handle(r, <<"/">>)
    \/ Advance
    \/ \E v \in ErrValues : CallsNext(v)
    \/ CallsNextThenThrows(NoErr, "E")
    \/ \E e \in ErrValues : Throws(e)
    \/ \E v \in ErrValues : KeepsNext(v)
    \/ Ends
    \/ Return
    \/ Catch
    \/ RunImmediate
    \/ LaterNext

SpecModes == Init /\ [][NextModes]_vars

\* registration alone: use() with no path, with the root, with paths that end
\* in no slash, in one and in two, and with the empty string
RegisteredPaths ==
    {NoPath, <<>>, <<"/">>, <<"/", "a">>, <<"/", "a", "/">>,
     <<"/", "a", "/", "/">>, <<"/", "/">>}

NextUse ==
    \/ \E p \in RegisteredPaths, n \in Arities : UseUpTo(MaxUse, "app", p, Fn(n))
    \/ \E p \in RegisteredPaths : UseUpTo(MaxUse, "app", p, Server("sub"))

SpecUse == Init /\ [][NextUse]_vars

\* getProtohost alone: a dispatcher with no entries handles a request whose
\* url is any string, up to a length, of a letter and the characters
\* getProtohost looks for
UrlChars == {"h", ":", "/", "?"}
ProtoUrls == UNION {[1..n -> UrlChars] : n \in 0..MaxUrlLen}

NextProtohost ==
    \/ \E r \in Reqs, u \in ProtoUrls : Handle(r, u)
    \/ Advance
    \/ Return
    \/ RunImmediate

SpecProtohost == Init /\ [][NextProtohost]_vars

\* every invoked handle throws or calls next, at once or in a later turn (it
\* may also throw after it called next); none ends the response
LiveErrs == {NoErr, "E"}
LivePaths == {NoPath, <<"/", "a">>}
LiveUrls == {<<"/", "a">>, <<"/", "b">>}

HandleActs ==
    \/ \E v \in LiveErrs : CallsNext(v)
    \/ CallsNextThenThrows(NoErr, "E")
    \/ Throws("E")
    \/ \E v \in LiveErrs : KeepsNext(v)

NextLive ==
    \/ \E p \in LivePaths, n \in Arities : UseUpTo(MaxLive, "app", p, Fn(n))
    \/ \E r \in Reqs, u \in LiveUrls : Handle(r, u)
    \/ Advance
    \/ HandleActs
    \/ Return
    \/ Catch
    \/ RunImmediate
    \/ LaterNext

\* JavaScript runs the call stack to completion, the event loop runs every
\* setImmediate callback, and a handle that kept next calls it
SpecLive ==
    /\ Init
    /\ [][NextLive]_vars
    /\ WF_vars(Advance)
    /\ WF_vars(HandleActs)
    /\ WF_vars(Return)
    /\ WF_vars(Catch)
    /\ WF_vars(RunImmediate)
    /\ WF_vars(LaterNext)

\* two requests in flight on one dispatcher of request handlers: handles that
\* keep next let the walks of the two interleave in any order
TwoErrs == {NoErr, "E"}
TwoPaths == {NoPath, <<"/", "a">>}
TwoUrls == {<<"/", "a", "/", "b">>, <<"/", "b">>}

NextTwo ==
    \/ \E p \in TwoPaths : UseUpTo(MaxTwo, "app", p, Fn(3))
    \/ \E r \in TwoReqs, u \in TwoUrls : Handle(r, u)
    \/ Advance
    \/ CallsNext(NoErr)
    \/ CallsNextThenThrows(NoErr, "E")
    \/ \E v \in TwoErrs : KeepsNext(v)
    \/ Ends
    \/ Return
    \/ Catch
    \/ RunImmediate
    \/ LaterNext

SpecTwo == InitWith(TwoReqs) /\ [][NextTwo]_vars

\* ------------------------------------------------------------ the claims

\* p starts with r when letter case is ignored
StartsWithNoCase(p, r) ==
    /\ Len(p) >= Len(r)
    /\ \A k \in 1..Len(r) : LowerOf(p[k]) = LowerOf(r[k])

\* the path of the url request r arrived with, the query string excluded
RequestPath(r) == PathnameOf(req[r].received)

\* next(err) is about to run and will find a layer at its index
Reaching ==
    /\ cur.op = "next"
    /\ walker[cur.r][cur.a].index + 1 <= Len(stack[cur.a])

\* the layer next(err) is about to reach
ReachedLayer == stack[cur.a][walker[cur.r][cur.a].index + 1]

\* C1: when the walker reaches a layer whose route the request path does not
\* start with (letter case ignored), it calls next again with the same err,
\* one layer further, and no handle is invoked; and every handle that was
\* ever invoked sits on a route the request path starts with.
C1_MismatchSkips ==
    /\ [](\A k \in 1..Len(log) :
            StartsWithNoCase(RequestPath(log[k].r), stack[log[k].a][log[k].i].route))
    /\ [][(Reaching /\ ~StartsWithNoCase(RequestPath(cur.r), ReachedLayer.route))
            => /\ cur' = NextCall(cur.r, cur.a, cur.err)
               /\ walker'[cur.r][cur.a].index = walker[cur.r][cur.a].index + 1
               /\ log' = log]_vars

\* C1 witness: a pending error "E" has just been carried past a layer whose
\* route the request path does not start with, and that layer was not invoked
C1_Witness ==
    /\ cur.op = "next"
    /\ cur.err = "E"
    /\ LET k == walker[cur.r][cur.a].index
       IN /\ k \in 1..Len(stack[cur.a])
          /\ ~StartsWithNoCase(RequestPath(cur.r), stack[cur.a][k].route)
          /\ \A n \in 1..Len(log) : log[n].i # k

\* route R matches path P: P starts with R (letter case ignored) and ends
\* there or goes on with "/" or "."
RouteMatches(P, R) ==
    /\ StartsWithNoCase(P, R)
    /\ \/ Len(P) = Len(R)
       \/ P[Len(R) + 1] \in {"/", "."}

\* C2: a reached layer is treated as matching exactly when RouteMatches: its
\* route is trimmed off the url exactly then (a route other than the root),
\* and its handle, when the arity fits the mode, is invoked exactly then.
C2_MatchesExactlyWhen ==
    [][Reaching =>
         LET R == ReachedLayer.route
             P == RequestPath(cur.r)
         IN /\ Invokes(ReachedLayer.handle.arity, cur.err)
                 => (cur'.op = "invoke" <=> RouteMatches(P, R))
            /\ R \notin {<<>>, <<"/">>}
                 => (walker'[cur.r][cur.a].removed = R <=> RouteMatches(P, R))]_vars

\* C2 witness: the handle mounted at /a is invoked for the request /a.b
C2_Witness ==
    /\ cur.op = "invoke"
    /\ stack[cur.a][cur.i].route = <<"/", "a">>
    /\ req[cur.r].received = <<"/", "a", ".", "b">>

\* the invoked handle called next once, with no error, and did nothing else
CalledNextOnce(e) == e.beh \in {"next", "later"} /\ e.val = NoErr

\* every layer of app is a request handler on a route that matches request r
AllLayersMatch(r) ==
    /\ req[r].state = "active"
    /\ \A i \in 1..Len(stack["app"]) :
          /\ RouteMatches(RequestPath(r), stack["app"][i].route)
          /\ stack["app"][i].handle.arity < 4

\* C3: when every registered handle matches the request and every handle
\* invoked so far called next once with no error, the handles were invoked in
\* the order of their registration, each once: the k-th invocation is that of
\* layer k, and when the final handler is reached every layer was invoked.
C3_InOrderOnce ==
    \A r \in Reqs :
        (AllLayersMatch(r) /\ \A k \in 1..Len(log) : CalledNextOnce(log[k]))
            => /\ \A k \in 1..Len(log) : log[k].i = k
               /\ finals[r] # <<>> => Len(log) = Len(stack["app"])

\* C3 witness: three handles, one of them calling next in a later turn, were
\* invoked for a request that matches them all, and the final handler ran
C3_Witness ==
    /\ AllLayersMatch(1)
    /\ Len(stack["app"]) = 3
    /\ Len(log) = 3
    /\ \A k \in 1..3 : CalledNextOnce(log[k])
    /\ \E k \in 1..3 : log[k].beh = "later"
    /\ finals[1] = <<NoErr>>

\* C4: for every request the final handler is invoked at most once, and each
\* time with the err of an advance that found the stack exhausted. (Stated as
\* the claim has it; a handle that calls next and then throws makes call()
\* advance a second time, and the walk is exhausted twice.)
C4_TerminalExactlyOnce == \A r \in Reqs : Len(finals[r]) <= 1

\* next(err) is about to run and will find no layer at its index
Exhausting ==
    /\ cur.op = "next"
    /\ walker[cur.r][cur.a].index + 1 > Len(stack[cur.a])

\* C5: the advance that finds the stack exhausted only schedules the final
\* handler and returns; the final handler runs in a turn of its own, started
\* by the event loop when no activation is left on the call stack.
C5_TerminalDeferred ==
    /\ [][Exhausting =>
            /\ finals' = finals
            /\ immediates' = Append(immediates, [r |-> cur.r, a |-> cur.a, err |-> cur.err])
            /\ cur'.op = "return"]_vars
    /\ [][finals' # finals => (Idle /\ immediates # <<>> /\ frames' = <<>>)]_vars

\* C5 witness: the final handler ran for a request whose walk skipped every
\* layer of a stack that is not empty
C5_Witness ==
    /\ Len(stack["app"]) > 0
    /\ log = <<>>
    /\ finals[1] # <<>>

\* the scheme and authority an absolute-form url starts with, the empty
\* string for an origin-form url
SchemeAuthority(url) ==
    IF url[1] = "/" THEN <<>>
    ELSE Substr(url, 0, AuthorityEnd(url, 3 + IndexOf(url, <<":", "/", "/">>, 0)))

\* the handle of a layer with a route other than the root is being invoked
InvokedOffRoot ==
    /\ cur.op = "invoke"
    /\ stack[cur.a][cur.i].route \notin {<<>>, <<"/">>}

\* what follows route R in the url request r arrived with
AfterRoute(r, R) ==
    SubstrFrom(req[r].received, Len(SchemeAuthority(req[r].received)) + Len(R))

\* C6 as claimed: whenever the handle of a layer with non-root route R is
\* invoked, req.url is the request url with R removed from the start of its
\* path and begins with "/", which is the slash after R or a synthesized one.
C6_StrippedBeginsWithSlash ==
    InvokedOffRoot =>
        LET rest == AfterRoute(cur.r, stack[cur.a][cur.i].route)
            url == req[cur.r].url
        IN /\ url[1] = "/"
           /\ url = IF rest # <<>> /\ rest[1] = "/" THEN rest ELSE <<"/">> \o rest

\* C6 amended: whenever the handle of a layer with non-root route R is
\* invoked, req.url is the request url with R removed from the start of its
\* path. For an origin-form request it begins with "/": the slash after R, or
\* one synthesized (slashAdded) exactly when the path equals R or R is
\* followed by "." or by the query string. For an absolute-form request the
\* scheme and authority stay in front and no slash is synthesized.
C6_StrippedUrl ==
    InvokedOffRoot =>
        LET pre == SchemeAuthority(req[cur.r].received)
            rest == AfterRoute(cur.r, stack[cur.a][cur.i].route)
            url == req[cur.r].url
            added == walker[cur.r][cur.a].slashAdded
        IN IF pre = <<>>
           THEN /\ url[1] = "/"
                /\ url = IF added THEN <<"/">> \o rest ELSE rest
                /\ added <=> (rest = <<>> \/ rest[1] \in {".", "?"})
           ELSE /\ url = pre \o rest
                /\ ~added

\* C6 witness: the handle mounted at /a is invoked for /a?b and sees /?b
C6_Witness ==
    /\ InvokedOffRoot
    /\ req[cur.r].received = <<"/", "a", "?", "b">>
    /\ req[cur.r].url = <<"/", "?", "b">>

\* no route is trimmed off req.url for the walk of request r now
NothingRemoved(r) ==
    /\ req[r].state = "active"
    /\ walker[r]["app"].removed = <<>>
    /\ ~walker[r]["app"].slashAdded

\* C7: strip and restore are a round trip: whenever the walker has advanced
\* past a layer and trimmed nothing for the next one, req.url is exactly the
\* url the request arrived with, whatever the letter case of the route.
C7_RoundTrip ==
    \A r \in Reqs : NothingRemoved(r) => req[r].url = req[r].received

\* The round trip of C7 with letter case ignored: what next() puts back is
\* the route as registered, which equals the removed text up to letter case.
RoundTripNoCase ==
    \A r \in Reqs :
        NothingRemoved(r) => ToLowerCase(req[r].url) = ToLowerCase(req[r].received)

\* C8: for a request that arrived with an absolute-form url, req.url starts
\* at every step of the dispatch with the scheme and authority it arrived
\* with, and the authority ends where it ended then.
C8_SchemeAuthorityKept ==
    \A r \in Reqs :
        (req[r].state = "active" /\ SchemeAuthority(req[r].received) # <<>>)
            => SchemeAuthority(req[r].url) = SchemeAuthority(req[r].received)

\* C9: req.originalUrl is set once per request: from the first handle call on
\* it holds the url the request arrived with at the outermost dispatcher, and
\* no later step, the handle call of a mounted dispatcher included, changes it.
C9_OriginalUrlSetOnce ==
    /\ [](\A r \in Reqs :
            req[r].state = "active" => req[r].originalUrl = req[r].received)
    /\ [][\A r \in Reqs :
            req[r].originalUrl # UNDEF => req'[r].originalUrl = req[r].originalUrl]_vars

\* C9 witness: the mounted dispatcher's handle has just been entered with a
\* url its mount path is trimmed off, and req.originalUrl is the url received
C9_Witness ==
    /\ cur.op = "next"
    /\ cur.a = "sub"
    /\ walker[cur.r]["sub"].index = 0
    /\ req[cur.r].url # req[cur.r].received
    /\ req[cur.r].originalUrl = req[cur.r].received

\* entries [A (route "/", a request handler), B (route "/a", arity 4)] and a
\* request to /a
ThrowScenario ==
    /\ Len(stack["app"]) = 2
    /\ stack["app"][1].route = <<>>
    /\ stack["app"][1].handle.arity < 4
    /\ stack["app"][2].route = <<"/", "a">>
    /\ stack["app"][2].handle.arity = 4
    /\ req[1].received = <<"/", "a">>

\* B is being invoked, or was invoked, with err as its error argument
BInvokedWith(err) ==
    \/ cur.op = "invoke" /\ cur.i = 2 /\ cur.err = err
    \/ \E k \in 1..Len(log) : log[k].i = 2 /\ log[k].err = err

BInvoked == \E err \in Errs : BInvokedWith(err)

\* the walk has decided about B
BPassed == walker[1]["app"].index >= 2

AThrew == Len(log) >= 1 /\ log[1].i = 1 /\ log[1].beh = "throw"

ACalledNextWithNoError == Len(log) >= 1 /\ log[1].i = 1 /\ CalledNextOnce(log[1])

\* C10 as claimed: in the scenario, if A throws, B is invoked with the thrown
\* value as its error argument, whatever the value; if A calls next with no
\* error, B is not invoked and the final handler is reached with no error.
C10_ThrownInvokesB ==
    ThrowScenario =>
        /\ (AThrew /\ BPassed) => BInvokedWith(log[1].val)
        /\ ACalledNextWithNoError => (~BInvoked /\ finals[1] \in {<<>>, <<NoErr>>})

\* C10 amended: a value thrown by an invoked handle is caught and is the err
\* of the advance that follows. In the scenario, if A throws a value that is
\* truthy or is false, B is invoked with it as its error argument; if A
\* throws undefined or null, B is skipped and the final handler receives the
\* thrown value; if A calls next with no error, B is not invoked and the
\* final handler is reached with no error.
C10_ThrownIsNextErr ==
    /\ [][cur.op = "throw" => cur' = NextCall(cur.r, cur.a, cur.err)]_vars
    /\ [](ThrowScenario =>
            /\ (AThrew /\ BPassed /\ log[1].val \in {"false", "E"})
                   => BInvokedWith(log[1].val)
            /\ (AThrew /\ log[1].val \in {NoErr, "null"})
                   => (~BInvoked /\ finals[1] \in {<<>>, <<log[1].val>>})
            /\ ACalledNextWithNoError
                   => (~BInvoked /\ finals[1] \in {<<>>, <<NoErr>>}))

\* C10 witness: A threw "E" and B was invoked with "E"
C10_Witness ==
    /\ ThrowScenario
    /\ AThrew
    /\ log[1].val = "E"
    /\ Len(log) = 2
    /\ log[2].i = 2
    /\ log[2].err = "E"

\* the activation that invokes the handle of layer i of the walk of cur
InvokeOf(i) == [op |-> "invoke", r |-> cur.r, a |-> cur.a, i |-> i, err |-> cur.err]

\* the setImmediate callback that runs now, when one does
RunsImmediate == Idle /\ immediates # <<>> /\ immediates' = Tail(immediates)

\* C11: while an error is pending (hasError of call()), an advance that
\* reaches a matching layer invokes its handle, with that error, only when the
\* arity is exactly 4; a matching handle of arity below 4 is not invoked and
\* the advance goes on with the same error, as it does past a layer that does
\* not match; at the end of the stack the same error is scheduled for the
\* final handler, which receives it. No handle of arity below 4 was ever
\* invoked with a pending error.
C11_ErrorModeSkips ==
    /\ [](\A k \in 1..Len(log) :
            HasError(log[k].err) => stack[log[k].a][log[k].i].handle.arity = 4)
    /\ [][(Reaching /\ HasError(cur.err)) =>
            IF RouteMatches(RequestPath(cur.r), ReachedLayer.route)
               /\ ReachedLayer.handle.arity = 4
            THEN cur' = InvokeOf(walker[cur.r][cur.a].index + 1)
            ELSE cur' = NextCall(cur.r, cur.a, cur.err) /\ log' = log]_vars
    /\ [][(Exhausting /\ HasError(cur.err)) =>
            immediates' = Append(immediates, [r |-> cur.r, a |-> cur.a, err |-> cur.err])]_vars
    /\ [][RunsImmediate =>
            LET job == Head(immediates)
            IN walker[job.r][job.a].done = "finalhandler"
                  => finals' = [finals EXCEPT ![job.r] = Append(@, job.err)]]_vars

\* C11 witness: the first of two matching request handlers passed "E", the
\* second was not invoked, and the final handler received "E"
C11_Witness ==
    /\ Len(stack["app"]) = 2
    /\ AllLayersMatch(1)
    /\ Len(log) = 1
    /\ log[1].i = 1
    /\ log[1].beh \in {"next", "later"}
    /\ log[1].val = "E"
    /\ finals[1] = <<"E">>

\* C12: while no error is pending, an advance that reaches a layer with a
\* handle of arity 4 does not invoke it and goes on to the next layer with the
\* err it had, still no pending error; an advance that reaches a matching
\* layer with a handle of arity below 4 invokes it. No handle of arity 4 was
\* ever invoked without a pending error.
C12_NormalModeSkips ==
    /\ [](\A k \in 1..Len(log) :
            stack[log[k].a][log[k].i].handle.arity = 4 => HasError(log[k].err))
    /\ [][(Reaching /\ ~HasError(cur.err)) =>
            IF ReachedLayer.handle.arity = 4
            THEN /\ cur' = NextCall(cur.r, cur.a, cur.err)
                 /\ ~HasError(cur'.err)
                 /\ walker'[cur.r][cur.a].index = walker[cur.r][cur.a].index + 1
                 /\ log' = log
            ELSE RouteMatches(RequestPath(cur.r), ReachedLayer.route)
                    => cur' = InvokeOf(walker[cur.r][cur.a].index + 1)]_vars

\* C12 witness: an error handler and then a request handler, both on routes
\* that match; with no error pending the second alone is being invoked
C12_Witness ==
    /\ Len(stack["app"]) = 2
    /\ stack["app"][1].handle.arity = 4
    /\ stack["app"][2].handle.arity < 4
    /\ \A i \in 1..2 : RouteMatches(RequestPath(1), stack["app"][i].route)
    /\ log = <<>>
    /\ cur = [op |-> "invoke", r |-> 1, a |-> "app", i |-> 2, err |-> NoErr]

\* the handle of layer 1, a request handler, raised an error (passed it to
\* next, at once or later, or threw it); the handle of layer 2, an error
\* handler, was invoked with it and called next with no argument
ClearScenario ==
    /\ Len(stack["app"]) = 3
    /\ stack["app"][1].handle.arity < 4
    /\ stack["app"][2].handle.arity = 4
    /\ Len(log) >= 2
    /\ log[1].i = 1
    /\ log[1].beh \in {"next", "later", "throw"}
    /\ HasError(log[1].val)
    /\ log[2].i = 2
    /\ log[2].err = log[1].val
    /\ CalledNextOnce(log[2])

\* the handle of layer 3 is being invoked or was invoked, with no error
ThirdInvoked ==
    \/ cur = [op |-> "invoke", r |-> 1, a |-> "app", i |-> 3, err |-> NoErr]
    \/ Len(log) >= 3 /\ log[3].i = 3 /\ log[3].err = NoErr

\* C13: an error handler invoked with a pending error that calls next with
\* no argument starts an advance with no error, at once or in the later turn
\* in which it calls. In the scenario the walk goes on in normal mode: a third
\* handle of arity 4 is not invoked, a third handle of arity below 4 is
\* invoked with no error, and the final handler, when it is reached without
\* the third handle raising an error, receives no error.
C13_ErrorCleared ==
    /\ [][(cur.op = "invoke" /\ HasError(cur.err)
              /\ log' = Append(log, Seen("next", NoErr)))
            => (cur' = NextCall(cur.r, cur.a, NoErr) /\ ~HasError(cur'.err))]_vars
    /\ [](ClearScenario =>
            /\ cur.op = "invoke" => ThirdInvoked
            /\ Len(log) >= 3 => ThirdInvoked
            /\ stack["app"][3].handle.arity = 4 => ~ThirdInvoked
            /\ (stack["app"][3].handle.arity < 4 /\ walker[1]["app"].index >= 3)
                  => ThirdInvoked
            /\ (Len(log) = 2 \/ CalledNextOnce(log[3]))
                  => finals[1] \in {<<>>, <<NoErr>>})

\* C13 witness: a request handler raised "E", the error handler after it was
\* invoked with "E" and called next(), the request handler after that was
\* invoked with no error and the final handler received no error
C13_Witness ==
    /\ ClearScenario
    /\ log[1].val = "E"
    /\ stack["app"][3].handle.arity < 4
    /\ Len(log) = 3
    /\ ThirdInvoked
    /\ finals[1] = <<NoErr>>

\* C14 as claimed: every value other than undefined is a pending error: the
\* handles of arity 4 are the ones invoked with a value that is not undefined,
\* the handles of arity below 4 the ones invoked with undefined.
C14_AnyValueIsError ==
    \A k \in 1..Len(log) :
        stack[log[k].a][log[k].i].handle.arity = 4 <=> log[k].err # NoErr

\* C14 amended: a pending error is present exactly when the value is false
\* or truthy. With false or an Error object an advance that reaches a layer
\* invokes its handle exactly when the arity is 4; with undefined, null, 0 or
\* the empty string it invokes the handle exactly when the arity is below 4;
\* and a handle that is not invoked leaves the value as it is.
C14_FalseOrTruthyIsError ==
    /\ [](\A k \in 1..Len(log) :
            stack[log[k].a][log[k].i].handle.arity = 4 <=> log[k].err \in {"false", "E"})
    /\ [][Reaching =>
            /\ cur.err \in {"false", "E"}
                  => (cur'.op = "invoke" <=> ReachedLayer.handle.arity = 4)
            /\ cur.err \in {NoErr, "null", "0", "''"}
                  => (cur'.op = "invoke" <=> ReachedLayer.handle.arity < 4)
            /\ cur'.err = cur.err]_vars

\* C14 witness: a request handler was invoked while the value 0 was passed
\* on, and the error handler after it was invoked with false
C14_Witness ==
    /\ Len(log) = 3
    /\ stack["app"][2].handle.arity < 4
    /\ log[2].i = 2
    /\ log[2].err = "0"
    /\ stack["app"][3].handle.arity = 4
    /\ log[3].i = 3
    /\ log[3].err = "false"

\* C15: after any sequence of use calls every stored route has no trailing
\* slash: a path that ends in "/" is stored without it, the root "/" and a
\* use call with no path are stored as the empty string.
C15_NoTrailingSlash ==
    \A a \in Apps : \A i \in 1..Len(stack[a]) :
        LET R == stack[a][i].route
        IN R = <<>> \/ R[Len(R)] # "/"

\* the first entry of app is the dispatcher sub
SubFirst ==
    /\ Len(stack["app"]) >= 1
    /\ stack["app"][1].handle = Server("sub")

\* the url of request r relative to the mount path P
RelativeTo(r, P) ==
    LET pre == SchemeAuthority(req[r].received)
        rest == AfterRoute(r, P)
    IN IF P = <<>> THEN req[r].received
       ELSE IF pre # <<>> \/ (rest # <<>> /\ rest[1] = "/") THEN pre \o rest
       ELSE <<"/">> \o rest

\* the handles of sub on its root see the url relative to the mount path
SubSeesRelative ==
    SubFirst =>
        \A k \in 1..Len(log) :
            (log[k].a = "sub" /\ stack["sub"][log[k].i].route = <<>>)
                => log[k].url = RelativeTo(log[k].r, stack["app"][1].route)

\* sub's deferred done is app's next: it runs with the err sub ended with,
\* while app's walker stands at the entry of sub
SubDoneResumes ==
    [][(RunsImmediate /\ Head(immediates).a = "sub") =>
          LET job == Head(immediates)
              w == walker[job.r]["app"]
          IN /\ cur' = NextCall(job.r, "app", job.err)
             /\ w.index \in 1..Len(stack["app"])
             /\ stack["app"][w.index].handle = Server("sub")]_vars

\* app's next after sub puts req.url back as it was before sub's entry
SubDoneRestores ==
    [][(SubFirst /\ cur.op = "next" /\ cur.a = "app" /\ walker[cur.r]["app"].index = 1
           /\ walker'[cur.r]["app"].removed = <<>>)
          => req'[cur.r].url = req[cur.r].received]_vars

\* C16: a mounted dispatcher's handles see urls relative to the mount path;
\* when it has exhausted its entries, app resumes at the entry after it, with
\* the err the mounted dispatcher ended with, and with req.url as it was
\* before the entry of the mounted dispatcher was reached.
C16_SubDispatcher == SubSeesRelative /\ SubDoneResumes /\ SubDoneRestores

\* the 0-based positions of the character c in url
PositionsOf(url, c) == {i \in 0..(Len(url) - 1) : url[i + 1] = c}

\* the least of a set of positions, n when there is none
LeastOr(S, n) == IF S = {} THEN n ELSE CHOOSE i \in S : \A j \in S : i <= j

\* the 0-based positions at which the marker "://" starts in url
MarkersOf(url) ==
    {i \in 0..(Len(url) - 3) : url[i + 1] = ":" /\ url[i + 2] = "/" /\ url[i + 3] = "/"}

\* url is absolute-form: it does not start with "/" and its first "://"
\* comes before any other "/" and before the query marker
AbsoluteForm(url) ==
    /\ url # <<>>
    /\ url[1] # "/"
    /\ MarkersOf(url) # {}
    /\ LET m == LeastOr(MarkersOf(url), 0)
       IN /\ m < LeastOr(PositionsOf(url, "/"), Len(url))
          /\ m < LeastOr(PositionsOf(url, "?"), Len(url))

\* what the claim has getProtohost return: for an absolute-form url the part
\* before the first "/" after the marker (the whole url when no "/" follows
\* the marker), undefined for every other url
ClaimedProtohost(url) ==
    IF ~AbsoluteForm(url) THEN UNDEF
    ELSE LET m == LeastOr(MarkersOf(url), 0)
             after == {i \in PositionsOf(url, "/") : i >= m + 3}
         IN SubSeq(url, 1, LeastOr(after, Len(url)))

\* C17: getProtohost(url) is the part of an absolute-form url before the
\* first "/" after the marker "://", and undefined for every url that starts
\* with "/" and for every url in which "://" does not come before the first
\* "/" or before the query marker.
C17_Protohost ==
    \A r \in DOMAIN req :
        req[r].state = "active"
            => GetProtohost(req[r].received) = ClaimedProtohost(req[r].received)

\* the handle that throws now had called next before it threw
ThrowsAfterNext ==
    /\ cur.op = "throw"
    /\ \E k \in 1..Len(log) :
          /\ log[k].r = cur.r /\ log[k].a = cur.a /\ log[k].i = cur.i
          /\ log[k].beh = "next-throw"

\* C18: an invocation of a handle advances the walker at most once: when a
\* handle that has called next throws, the caught exception starts no second
\* advance; so no entry is invoked twice for a request and the final handler
\* is not called twice.
C18_AtMostOneAdvance ==
    /\ [][ThrowsAfterNext => cur'.op # "next"]_vars
    /\ [](\A j, k \in 1..Len(log) :
            (j # k /\ log[j].r = log[k].r /\ log[j].a = log[k].a) => log[j].i # log[k].i)
    /\ [](\A r \in DOMAIN finals : Len(finals[r]) < 2)

\* C19: when every invoked handle throws or calls next, every request that
\* arrived has the final handler invoked in the end, whatever the entries;
\* and a running next ends, after the entries it skips, at the invocation of
\* a handle or at the end of the stack, where it schedules done and returns.
C19_Terminates ==
    /\ \A r \in Reqs : (req[r].state = "active") ~> (finals[r] # <<>>)
    /\ (cur.op = "next") ~> (cur.op \in {"invoke", "return"})

\* C19 witness: of two entries one was skipped and one invoked, its handle
\* called next in a later turn, and the final handler ran
C19_Witness ==
    /\ Len(stack["app"]) = 2
    /\ Len(log) = 1
    /\ log[1].beh = "later"
    /\ finals[1] # <<>>

\* the setImmediate jobs of request r, in order
ImmediatesOf(q, r) == LET Mine(job) == job.r = r IN SelectSeq(q, Mine)

\* the continuations kept for request r
PendingOf(P, r) == {c \in P : c.r = r}

\* what the dispatch of request r stands at: its walker's closure variables,
\* its req.url, the errors its kept and deferred continuations carry, and its
\* final handler's calls
DispatchOf(r) ==
    <<walker[r], req[r], PendingOf(pending, r), ImmediatesOf(immediates, r), finals[r]>>

\* C20: with two requests in flight on one dispatcher, whatever the order in
\* which their continuations are called: a request's walk starts at the first
\* entry, each of its advances looks at the entry after the one its own last
\* advance looked at, so its handles are invoked in registration order, each
\* seeing the request's own url; and a step of one request's walk changes
\* nothing of the other's index, removed, slashAdded, err and req.url.
C20_WalkerPrivate ==
    /\ [](\A j, k \in 1..Len(log) :
            (j < k /\ log[j].r = log[k].r) => log[j].i < log[k].i)
    /\ [](\A k \in 1..Len(log) :
            log[k].url = RelativeTo(log[k].r, stack["app"][log[k].i].route))
    /\ [][\A r \in TwoReqs :
            (req[r].state = "new" /\ req'[r].state = "active")
                => walker'[r]["app"].index = 0 /\ cur' = NextCall(r, "app", NoErr)]_vars
    /\ [][cur.op = "next" =>
            /\ walker'[cur.r]["app"].index = walker[cur.r]["app"].index + 1
            /\ cur'.op = "invoke"
                  => cur'.r = cur.r /\ cur'.i = walker[cur.r]["app"].index + 1]_vars
    /\ [][\A r \in TwoReqs :
            (cur.op # "return" /\ cur.r # r) => DispatchOf(r)' = DispatchOf(r)]_vars

\* C20 witness: both requests ran to their final handlers, the handles of
\* the second invoked between those of the first, and the two saw different
\* urls at the same entry
C20_Witness ==
    /\ finals[1] # <<>>
    /\ finals[2] # <<>>
    /\ \E j, k, l \in 1..Len(log) :
          /\ j < k /\ k < l
          /\ log[j].r = 1 /\ log[k].r = 2 /\ log[l].r = 1
          /\ log[j].i = log[k].i
          /\ log[j].url # log[k].url

=============================================================================
